---- MODULE Spec2Model ----
(***************************************************************************)
(* A model of the `uncased` crate: UncasedStr (borrowed.rs), Uncased       *)
(* (owned.rs), the free function eq (lib.rs) and AsUncased (as_uncased.rs).*)
(*                                                                         *)
(* A str is modelled as the sequence of its UTF-8 bytes (0..255).  The     *)
(* inputs are all valid texts of at most MaxLen characters over Alphabet.  *)
(***************************************************************************)
EXTENDS Integers, Sequences, FiniteSets, TLC

VARIABLES a, b, res, v

vars == <<a, b, res, v>>

\* Longest input text, in characters.
MaxLen == 2

\* Longest text an Uncased is built from, in characters.
MaxValueLen == 1

\* Code points of the input characters: 'A', 'a', '[', U+00C9 (E acute,
\* upper case), U+00E9 (e acute, lower case).  The two accented letters are
\* two bytes long in UTF-8 and differ only in their second byte.
Alphabet == {65, 97, 91, 201, 233}

(***************************************************************************)
(* str and char primitives the crate calls.                                *)
(***************************************************************************)

\* char::encode_utf8: the bytes of one code point.
encode_utf8(c) ==
    IF c < 128 THEN <<c>>
    ELSE IF c < 2048 THEN <<192 + (c \div 64), 128 + (c % 64)>>
    ELSE IF c < 65536
         THEN <<224 + (c \div 4096), 128 + ((c \div 64) % 64), 128 + (c % 64)>>
    ELSE <<240 + (c \div 262144), 128 + ((c \div 4096) % 64),
           128 + ((c \div 64) % 64), 128 + (c % 64)>>

\* The str holding the characters cs: what a string literal is.
RECURSIVE Utf8(_)
Utf8(cs) == IF cs = <<>> THEN <<>> ELSE encode_utf8(Head(cs)) \o Utf8(Tail(cs))

\* Every valid text of at most n characters over Alphabet.
TextsUpTo(n) == {Utf8(cs) : cs \in UNION {[1..k -> Alphabet] : k \in 0..n}}

Texts == TextsUpTo(MaxLen)

ValueTexts == TextsUpTo(MaxValueLen)

\* Width in bytes of the character whose first byte is x.
utf8_char_width(x) ==
    IF x < 128 THEN 1 ELSE IF x < 224 THEN 2 ELSE IF x < 240 THEN 3 ELSE 4

\* core::str::next_code_point: decodes the character at the head of s.
next_code_point(s) ==
    LET x == s[1] IN
    IF x < 128 THEN x
    ELSE LET y == s[2] % 64 IN
         IF x < 224 THEN (x % 32) * 64 + y
         ELSE LET yz == y * 64 + (s[3] % 64) IN
              IF x < 240 THEN (x % 16) * 4096 + yz
              ELSE (x % 8) * 262144 + yz * 64 + (s[4] % 64)

\* str::chars, collected: the code points of s in order.
RECURSIVE chars(_)
chars(s) ==
    IF s = <<>> THEN <<>>
    ELSE <<next_code_point(s)>>
         \o chars(SubSeq(s, utf8_char_width(s[1]) + 1, Len(s)))

\* A faulty u8::to_ascii_lowercase: sets the 0x20 bit of every byte.
to_ascii_lowercase_or_0x20(x) == IF (x \div 32) % 2 = 0 THEN x + 32 ELSE x

\* u8::to_ascii_lowercase: a byte in 'A'..='Z' gets the 0x20 bit, every other
\* byte is returned as it is.
to_ascii_lowercase(x) == IF x >= 65 /\ x <= 90 THEN x + 32 ELSE x

\* A faulty char::to_ascii_lowercase: char::to_lowercase, which also folds
\* the accented capitals U+00C0..U+00DE.
char_to_lowercase(c) ==
    IF (c >= 65 /\ c <= 90) \/ (c >= 192 /\ c <= 222 /\ c # 215) THEN c + 32 ELSE c

\* char::to_ascii_lowercase, on a code point: the same for 'A'..='Z', and
\* every other character is returned as it is.
char_to_ascii_lowercase(c) == IF c >= 65 /\ c <= 90 THEN c + 32 ELSE c

\* The zip(..).all(..) of str::eq_ignore_ascii_case: every pair of bytes at
\* the same position is equal after u8::to_ascii_lowercase.
RECURSIVE zip_all_eq(_, _)
zip_all_eq(s, t) ==
    IF s = <<>> \/ t = <<>> THEN TRUE
    ELSE /\ to_ascii_lowercase(Head(s)) = to_ascii_lowercase(Head(t))
         /\ zip_all_eq(Tail(s), Tail(t))

\* A faulty str::eq_ignore_ascii_case: no comparison of the lengths.
eq_ignore_ascii_case_no_len(s, t) == zip_all_eq(s, t)

\* str::eq_ignore_ascii_case: equal lengths, and equal bytes up to ASCII case.
eq_ignore_ascii_case(s, t) == Len(s) = Len(t) /\ zip_all_eq(s, t)

\* A faulty str::is_char_boundary: only the bounds are looked at.
is_char_boundary_in_bounds(s, i) == i <= Len(s)

\* str::is_char_boundary(i), i a byte offset counted from 0.
is_char_boundary(s, i) ==
    IF i = 0 THEN TRUE
    ELSE IF i >= Len(s) THEN i = Len(s)
    ELSE s[i + 1] < 128 \/ s[i + 1] >= 192

(***************************************************************************)
(* Results.  An operation either returns a value or panics; `copied` says  *)
(* whether it allocated a copy of the text.                                *)
(***************************************************************************)

Ok(x) == [ok |-> TRUE, val |-> x]
Panicked == [ok |-> FALSE, val |-> <<>>]

Result(op, arg, r, copied) ==
    [op |-> op, arg |-> arg, ok |-> r.ok, val |-> r.val, copied |-> copied]

(***************************************************************************)
(* borrowed.rs: UncasedStr, a transparent wrapper of str.                  *)
(***************************************************************************)

\* UncasedStr::new: the same bytes, relabelled.
UncasedStr_new(string) == [str |-> string]

\* UncasedStr::as_str
as_str(self) == self.str

\* UncasedStr::len, in bytes
len(self) == Len(as_str(self))

\* impl From<&str> for &UncasedStr
UncasedStr_from(string) == UncasedStr_new(string)

\* impl Index<I> for UncasedStr, for the range start..end (byte offsets from
\* 0; ..n is 0..n).  str's own indexing panics unless start <= end and both
\* ends are character boundaries of the text.
index(self, start, end) ==
    LET s == as_str(self) IN
    IF start <= end /\ is_char_boundary(s, start) /\ is_char_boundary(s, end)
    THEN Ok(UncasedStr_from(SubSeq(s, start + 1, end)))
    ELSE Panicked

\* impl PartialEq for UncasedStr
UncasedStr_eq(self, other) == eq_ignore_ascii_case(self.str, other.str)

\* impl PartialEq<str> for UncasedStr
UncasedStr_eq_str(self, other) == eq_ignore_ascii_case(self.str, other)

\* impl PartialEq<UncasedStr> for str
str_eq_UncasedStr(self, other) == eq_ignore_ascii_case(other.str, self)

\* impl PartialEq<&str> for UncasedStr
UncasedStr_eq_ref_str(self, other) == eq_ignore_ascii_case(self.str, other)

\* impl PartialEq<UncasedStr> for &str
ref_str_eq_UncasedStr(self, other) == eq_ignore_ascii_case(other.str, self)

\* UncasedStr::starts_with
starts_with(self, string) ==
    IF ~(len(self) >= Len(string)) THEN Ok(FALSE)
    ELSE LET head == index(self, 0, Len(string)) IN
         IF ~head.ok THEN Panicked
         ELSE Ok(UncasedStr_eq_ref_str(head.val, string))

\* impl Hash for UncasedStr: one write_u8 per byte, lowercased; `hasher` is
\* the sequence of bytes written to the hasher so far.
RECURSIVE write_bytes(_, _)
write_bytes(hasher, bytes) ==
    IF bytes = <<>> THEN hasher
    ELSE write_bytes(Append(hasher, to_ascii_lowercase(Head(bytes))), Tail(bytes))

\* A faulty hash: the bytes are written as they are.
hash_raw(self, hasher) == hasher \o self.str

hash(self, hasher) == write_bytes(hasher, self.str)

\* Iterator::cmp on two sequences of code points: lexicographic.
RECURSIVE iter_cmp(_, _)
iter_cmp(xs, ys) ==
    IF xs = <<>> THEN (IF ys = <<>> THEN "Equal" ELSE "Less")
    ELSE IF ys = <<>> THEN "Greater"
    ELSE IF Head(xs) < Head(ys) THEN "Less"
    ELSE IF Head(xs) > Head(ys) THEN "Greater"
    ELSE iter_cmp(Tail(xs), Tail(ys))

\* A faulty lower_chars: the characters are not folded.
lower_chars_unfolded(s) == chars(s)

\* chars().map(|c| c.to_ascii_lowercase()), collected
lower_chars(s) == LET cs == chars(s) IN [i \in 1..Len(cs) |-> char_to_ascii_lowercase(cs[i])]

\* impl Ord for UncasedStr
cmp(self, other) == iter_cmp(lower_chars(self.str), lower_chars(other.str))

\* impl PartialOrd for UncasedStr
partial_cmp(self, other) == cmp(self, other)

\* impl Display for UncasedStr: what is written to the formatter.
fmt(self) == self.str

(***************************************************************************)
(* owned.rs: Uncased, a Cow<str>: either a borrowed &str or an owned       *)
(* String.                                                                 *)
(***************************************************************************)

Cow_Borrowed(s) == [tag |-> "Borrowed", s |-> s]
Cow_Owned(s) == [tag |-> "Owned", s |-> s]

\* What Uncased::new accepts: a &str, a String or a Cow<str>.
Sources(s) ==
    {[type |-> "&str", s |-> s], [type |-> "String", s |-> s],
     [type |-> "Cow", cow |-> Cow_Borrowed(s)], [type |-> "Cow", cow |-> Cow_Owned(s)]}

\* Into<Cow<str>>: a &str is borrowed, a String is owned, a Cow is itself.
into_cow_from(src) ==
    CASE src.type = "&str" -> Cow_Borrowed(src.s)
      [] src.type = "String" -> Cow_Owned(src.s)
      [] src.type = "Cow" -> src.cow

\* A faulty Cow::into_owned: the copy of a borrowed text is lowercased.
Cow_into_owned_lowercased(cow) ==
    IF cow.tag = "Borrowed"
    THEN [s |-> [i \in 1..Len(cow.s) |-> to_ascii_lowercase(cow.s[i])], copied |-> TRUE]
    ELSE [s |-> cow.s, copied |-> FALSE]

\* Cow::into_owned: the owned String, copied from the text when borrowed.
Cow_into_owned(cow) ==
    IF cow.tag = "Borrowed" THEN [s |-> cow.s, copied |-> TRUE]
    ELSE [s |-> cow.s, copied |-> FALSE]

\* A faulty Cow::clone: always a deep copy into the owned branch.
Cow_clone_deep(cow) == [cow |-> Cow_Owned(cow.s), copied |-> TRUE]

\* Cow::clone: a borrowed Cow is copied as a reference, an owned one is
\* copied with its text.
Cow_clone(cow) ==
    IF cow.tag = "Borrowed" THEN [cow |-> Cow_Borrowed(cow.s), copied |-> FALSE]
    ELSE [cow |-> Cow_Owned(cow.s), copied |-> TRUE]

\* Cow::borrow: the text of the active branch
Cow_borrow(cow) == cow.s

\* Uncased::new
Uncased_new(src) == [kind |-> "Uncased", string |-> into_cow_from(src)]

\* Uncased::from_borrowed
from_borrowed(s) == [kind |-> "Uncased", string |-> Cow_Borrowed(s)]

\* Uncased::from_owned
from_owned(s) == [kind |-> "Uncased", string |-> Cow_Owned(s)]

\* impl From<&str>, From<String>, From<Cow<str>> for Uncased
Uncased_from(src) == Uncased_new(src)

\* Uncased::into_string
into_string(self) == Cow_into_owned(self.string)

\* Uncased::into_boxed_uncased: the owned text, boxed and relabelled.
into_boxed_uncased(self) ==
    LET owned == Cow_into_owned(self.string) IN
    [box |-> [kind |-> "Box", str |-> owned.s], copied |-> owned.copied]

\* Uncased::into_cow
into_cow(self) == self.string

\* UncasedStr::into_uncased, on a Box<UncasedStr>
into_uncased(box) == Uncased_from([type |-> "String", s |-> box.str])

\* #[derive(Clone)] for Uncased
Uncased_clone(self) ==
    LET c == Cow_clone(self.string) IN
    [value |-> [kind |-> "Uncased", string |-> c.cow], copied |-> c.copied]

\* impl Deref for Uncased
deref(self) == UncasedStr_new(Cow_borrow(self.string))

\* impl AsRef<UncasedStr> for Uncased
as_ref(self) == UncasedStr_new(Cow_borrow(self.string))

\* impl Borrow<UncasedStr> for Uncased
borrow(self) == UncasedStr_from(as_str(deref(self)))

\* impl PartialOrd<Uncased> for Uncased
Uncased_partial_cmp(self, other) == partial_cmp(as_ref(self), as_ref(other))

\* impl Ord for Uncased
Uncased_cmp(self, other) == cmp(as_ref(self), as_ref(other))

\* A faulty Uncased == Uncased: the texts are compared as they are.
Uncased_eq_exact(self, other) == self.string.s = other.string.s

\* impl PartialEq<Uncased> for Uncased
Uncased_eq(self, other) == UncasedStr_eq(as_ref(self), as_ref(other))

\* impl PartialEq<str> for Uncased
Uncased_eq_str(self, other) == UncasedStr_eq_str(as_ref(self), other)

\* impl PartialEq<Uncased> for str
str_eq_Uncased(self, other) == UncasedStr_eq_str(as_ref(other), self)

\* impl PartialEq<&str> for Uncased
Uncased_eq_ref_str(self, other) == UncasedStr_eq_ref_str(as_ref(self), other)

\* impl PartialEq<Uncased> for &str
ref_str_eq_Uncased(self, other) == UncasedStr_eq_ref_str(as_ref(other), self)

\* impl Hash for Uncased
Uncased_hash(self, hasher) == hash(as_ref(self), hasher)

\* impl Display for Uncased
Uncased_fmt(self) == self.string.s

(***************************************************************************)
(* lib.rs and as_uncased.rs                                                *)
(***************************************************************************)

\* AsUncased::as_uncased
as_uncased(s) == UncasedStr_new(s)

\* uncased::eq
eq(s1, s2) == UncasedStr_eq(UncasedStr_new(s1), UncasedStr_new(s2))

(***************************************************************************)
(* The state machine.  a and b are the caller's two texts; res is the      *)
(* outcome of the call just made, until the caller takes it (Return); v    *)
(* holds the caller's two Uncased values (used by ValueSpec only).         *)
(***************************************************************************)

None == [kind |-> "None"]

NoResult == Result("none", <<>>, Ok(<<>>), FALSE)

\* No call is in progress: the caller may make the next one.
Idle == res.op = "none"

Init ==
    /\ a \in Texts
    /\ b \in Texts
    /\ res = NoResult
    /\ v = <<None, None>>

EqForms == {"UncasedStr==UncasedStr", "UncasedStr==str", "str==UncasedStr",
            "UncasedStr==&str", "&str==UncasedStr", "eq"}

EqBy(form, s, t) ==
    CASE form = "UncasedStr==UncasedStr" -> UncasedStr_eq(as_uncased(s), as_uncased(t))
      [] form = "UncasedStr==str" -> UncasedStr_eq_str(as_uncased(s), t)
      [] form = "str==UncasedStr" -> str_eq_UncasedStr(s, as_uncased(t))
      [] form = "UncasedStr==&str" -> UncasedStr_eq_ref_str(as_uncased(s), t)
      [] form = "&str==UncasedStr" -> ref_str_eq_UncasedStr(s, as_uncased(t))
      [] form = "eq" -> eq(s, t)

\* a == b in one of the pairwise forms, or uncased::eq(a, b)
Eq(form) ==
    /\ Idle
    /\ res' = Result("eq", form, Ok(EqBy(form, a, b)), FALSE)
    /\ UNCHANGED <<a, b, v>>

\* a and b hashed into two new hashers of the same kind
Hash ==
    /\ Idle
    /\ res' = Result("hash", <<>>,
                     Ok(<<hash(as_uncased(a), <<>>), hash(as_uncased(b), <<>>)>>), FALSE)
    /\ UNCHANGED <<a, b, v>>

\* a.cmp(b)
Cmp ==
    /\ Idle
    /\ res' = Result("cmp", <<>>, Ok(cmp(as_uncased(a), as_uncased(b))), FALSE)
    /\ UNCHANGED <<a, b, v>>

\* a.partial_cmp(b)
PartialCmp ==
    /\ Idle
    /\ res' = Result("partial_cmp", <<>>, Ok(partial_cmp(as_uncased(a), as_uncased(b))), FALSE)
    /\ UNCHANGED <<a, b, v>>

\* a.starts_with(b)
StartsWith ==
    /\ Idle
    /\ res' = Result("starts_with", <<>>, starts_with(as_uncased(a), b), FALSE)
    /\ UNCHANGED <<a, b, v>>

\* a[start..end], for every range up to one past the end of a
Index(start, end) ==
    /\ Idle
    /\ res' = Result("index", <<start, end>>, index(as_uncased(a), start, end), FALSE)
    /\ UNCHANGED <<a, b, v>>

\* a.as_str()
AsStr ==
    /\ Idle
    /\ res' = Result("as_str", <<>>, Ok(as_str(UncasedStr_new(a))), FALSE)
    /\ UNCHANGED <<a, b, v>>

\* a.len()
LenOp ==
    /\ Idle
    /\ res' = Result("len", <<>>, Ok(len(UncasedStr_new(a))), FALSE)
    /\ UNCHANGED <<a, b, v>>

\* format!("{}", a)
Display ==
    /\ Idle
    /\ res' = Result("fmt", <<>>, Ok(fmt(UncasedStr_new(a))), FALSE)
    /\ UNCHANGED <<a, b, v>>

\* The caller takes the result; the inputs are as they were.
Return ==
    /\ ~Idle
    /\ res' = NoResult
    /\ UNCHANGED <<a, b, v>>

Next ==
    \/ \E form \in EqForms : Eq(form)
    \/ Hash
    \/ Cmp
    \/ PartialCmp
    \/ StartsWith
    \/ \E start \in 0..(Len(a) + 1), end \in 0..(Len(a) + 1) : Index(start, end)
    \/ AsStr
    \/ LenOp
    \/ Display
    \/ Return

Spec == Init /\ [][Next]_vars

(***************************************************************************)
(* The Uncased state machine.  v[1] is built from a and v[2] from b; a     *)
(* slot holds nothing, an Uncased or the Box<UncasedStr> it was turned     *)
(* into.                                                                   *)
(***************************************************************************)

ValueInit ==
    /\ a \in ValueTexts
    /\ b \in ValueTexts
    /\ res = NoResult
    /\ v = <<None, None>>

txt(i) == IF i = 1 THEN a ELSE b

IsUncased(x) == x.kind = "Uncased"

\* v[i] = Uncased::new(src) or Uncased::from(src)
Construct(i, ctor, src) ==
    /\ Idle
    /\ v[i] = None
    /\ LET value == IF ctor = "new" THEN Uncased_new(src) ELSE Uncased_from(src) IN
       /\ v' = [v EXCEPT ![i] = value]
       /\ res' = Result(ctor, <<i, src>>, Ok(value), FALSE)
    /\ UNCHANGED <<a, b>>

\* v[i] = Uncased::from_borrowed(text)
FromBorrowed(i) ==
    /\ Idle
    /\ v[i] = None
    /\ v' = [v EXCEPT ![i] = from_borrowed(txt(i))]
    /\ res' = Result("from_borrowed", <<i>>, Ok(v'[i]), FALSE)
    /\ UNCHANGED <<a, b>>

\* v[i] = Uncased::from_owned(text.to_string())
FromOwned(i) ==
    /\ Idle
    /\ v[i] = None
    /\ v' = [v EXCEPT ![i] = from_owned(txt(i))]
    /\ res' = Result("from_owned", <<i>>, Ok(v'[i]), FALSE)
    /\ UNCHANGED <<a, b>>

\* v[i].clone()
Clone(i) ==
    /\ Idle
    /\ IsUncased(v[i])
    /\ LET c == Uncased_clone(v[i]) IN
       res' = Result("clone", <<i>>, Ok(c.value), c.copied)
    /\ UNCHANGED <<a, b, v>>

\* v[i].into_string(): consumes the value
IntoString(i) ==
    /\ Idle
    /\ IsUncased(v[i])
    /\ LET r == into_string(v[i]) IN
       res' = Result("into_string", <<i>>, Ok(r.s), r.copied)
    /\ v' = [v EXCEPT ![i] = None]
    /\ UNCHANGED <<a, b>>

\* v[i].into_cow(): consumes the value
IntoCow(i) ==
    /\ Idle
    /\ IsUncased(v[i])
    /\ res' = Result("into_cow", <<i>>, Ok(into_cow(v[i])), FALSE)
    /\ v' = [v EXCEPT ![i] = None]
    /\ UNCHANGED <<a, b>>

\* v[i] = v[i].into_boxed_uncased()
IntoBoxedUncased(i) ==
    /\ Idle
    /\ IsUncased(v[i])
    /\ LET r == into_boxed_uncased(v[i]) IN
       /\ v' = [v EXCEPT ![i] = r.box]
       /\ res' = Result("into_boxed_uncased", <<i>>, Ok(r.box), r.copied)
    /\ UNCHANGED <<a, b>>

\* v[i] = v[i].into_uncased(), v[i] a Box<UncasedStr>
IntoUncased(i) ==
    /\ Idle
    /\ v[i].kind = "Box"
    /\ v' = [v EXCEPT ![i] = into_uncased(v[i])]
    /\ res' = Result("into_uncased", <<i>>, Ok(v'[i]), FALSE)
    /\ UNCHANGED <<a, b>>

ViewBy(how, x) ==
    CASE how = "deref" -> deref(x)
      [] how = "as_ref" -> as_ref(x)
      [] how = "borrow" -> borrow(x)

\* &*v[i], v[i].as_ref(), v[i].borrow(): the value as an &UncasedStr
AsView(i, how) ==
    /\ Idle
    /\ IsUncased(v[i])
    /\ res' = Result("as_view", <<i, how>>, Ok(ViewBy(how, v[i])), FALSE)
    /\ UNCHANGED <<a, b, v>>

\* v[i].as_str(), through Deref
UAsStr(i) ==
    /\ Idle
    /\ IsUncased(v[i])
    /\ res' = Result("as_str", <<i>>, Ok(as_str(deref(v[i]))), FALSE)
    /\ UNCHANGED <<a, b, v>>

\* v[i][start..end], through Deref
UIndex(i, start, end) ==
    /\ Idle
    /\ IsUncased(v[i])
    /\ res' = Result("index", <<i, start, end>>, index(deref(v[i]), start, end), FALSE)
    /\ UNCHANGED <<a, b, v>>

\* format!("{}", v[i])
UDisplay(i) ==
    /\ Idle
    /\ IsUncased(v[i])
    /\ res' = Result("fmt", <<i>>, Ok(Uncased_fmt(v[i])), FALSE)
    /\ UNCHANGED <<a, b, v>>

UEqForms == {"Uncased==Uncased", "Uncased==str", "str==Uncased",
             "Uncased==&str", "&str==Uncased"}

UEqBy(form, x, y) ==
    CASE form = "Uncased==Uncased" -> Uncased_eq(x, y)
      [] form = "Uncased==str" -> Uncased_eq_str(x, as_str(deref(y)))
      [] form = "str==Uncased" -> str_eq_Uncased(as_str(deref(x)), y)
      [] form = "Uncased==&str" -> Uncased_eq_ref_str(x, as_str(deref(y)))
      [] form = "&str==Uncased" -> ref_str_eq_Uncased(as_str(deref(x)), y)

\* v[1] == v[2], in one of the pairwise forms
UEq(form) ==
    /\ Idle
    /\ IsUncased(v[1]) /\ IsUncased(v[2])
    /\ res' = Result("eq", form, Ok(UEqBy(form, v[1], v[2])), FALSE)
    /\ UNCHANGED <<a, b, v>>

\* v[1].cmp(&v[2])
UCmp ==
    /\ Idle
    /\ IsUncased(v[1]) /\ IsUncased(v[2])
    /\ res' = Result("cmp", <<>>, Ok(Uncased_cmp(v[1], v[2])), FALSE)
    /\ UNCHANGED <<a, b, v>>

\* v[1].partial_cmp(&v[2])
UPartialCmp ==
    /\ Idle
    /\ IsUncased(v[1]) /\ IsUncased(v[2])
    /\ res' = Result("partial_cmp", <<>>, Ok(Uncased_partial_cmp(v[1], v[2])), FALSE)
    /\ UNCHANGED <<a, b, v>>

\* v[1] and v[2] hashed into two new hashers of the same kind
UHash ==
    /\ Idle
    /\ IsUncased(v[1]) /\ IsUncased(v[2])
    /\ res' = Result("hash", <<>>,
                     Ok(<<Uncased_hash(v[1], <<>>), Uncased_hash(v[2], <<>>)>>), FALSE)
    /\ UNCHANGED <<a, b, v>>

ValueNext ==
    \/ \E i \in 1..2, ctor \in {"new", "from"} : \E src \in Sources(txt(i)) :
           Construct(i, ctor, src)
    \/ \E i \in 1..2 : FromBorrowed(i)
    \/ \E i \in 1..2 : FromOwned(i)
    \/ \E i \in 1..2 : Clone(i)
    \/ \E i \in 1..2 : IntoString(i)
    \/ \E i \in 1..2 : IntoCow(i)
    \/ \E i \in 1..2 : IntoBoxedUncased(i)
    \/ \E i \in 1..2 : IntoUncased(i)
    \/ \E i \in 1..2, how \in {"deref", "as_ref", "borrow"} : AsView(i, how)
    \/ \E i \in 1..2 : UAsStr(i)
    \/ \E i \in 1..2 : \E start \in 0..(Len(txt(i)) + 1), end \in 0..(Len(txt(i)) + 1) :
           UIndex(i, start, end)
    \/ \E i \in 1..2 : UDisplay(i)
    \/ \E form \in UEqForms : UEq(form)
    \/ UCmp
    \/ UPartialCmp
    \/ UHash
    \/ Return

ValueSpec == ValueInit /\ [][ValueNext]_vars

(***************************************************************************)
(* What the properties are stated in: ASCII case folding said directly,    *)
(* without the crate's operations.                                         *)
(***************************************************************************)

IsUpper(x) == x \in 65..90
IsLower(x) == x \in 97..122

Lower(x) == IF IsUpper(x) THEN x + 32 ELSE x

ToLower(s) == [i \in 1..Len(s) |-> Lower(s[i])]

FoldEq(s, t) == Len(s) = Len(t) /\ \A i \in 1..Len(s) : Lower(s[i]) = Lower(t[i])

\* t is s with the case of some of its ASCII letters changed.
SameUpToCase(s, t) ==
    /\ Len(s) = Len(t)
    /\ \A i \in 1..Len(s) :
         \/ s[i] = t[i]
         \/ IsUpper(s[i]) /\ t[i] = s[i] + 32
         \/ IsLower(s[i]) /\ t[i] = s[i] - 32

Reverse(o) == CASE o = "Less" -> "Greater" [] o = "Greater" -> "Less" [] o = "Equal" -> "Equal"

View(s) == UncasedStr_new(s)

\* off, and the byte offsets at which each of the characters cs ends when
\* the first of them starts at off.
RECURSIVE CharEnds(_, _)
CharEnds(cs, off) ==
    IF cs = <<>> THEN {off}
    ELSE {off} \cup CharEnds(Tail(cs), off + Len(encode_utf8(Head(cs))))

\* The byte offsets of s at which a character starts or the text ends.
Boundaries(s) == CharEnds(chars(s), 0)

\* ----------------------------------------------------------------- C1
\* C1: every form of case-insensitive equality of a and b (View == View,
\* View == text, text == View, and eq(a, b)) returns true iff a and b have
\* the same byte length and equal bytes at every position after 'A'..'Z' is
\* mapped to 'a'..'z', that is iff to_ascii_lowercase(a) ==
\* to_ascii_lowercase(b).
C1_Equality ==
    res.op = "eq" =>
        /\ res.ok
        /\ res.val = FoldEq(a, b)
        /\ res.val = (ToLower(a) = ToLower(b))

C1_Witness ==
    /\ res.op = "eq" /\ res.arg = "&str==UncasedStr"
    /\ res.val = TRUE
    /\ a # b
    /\ \E i \in 1..Len(a) : a[i] >= 128

\* ----------------------------------------------------------------- C2
\* C2: hashing feeds the hasher each byte of the text, ASCII-lowercased, in
\* order; so when a and b are equal their hashers are fed the same bytes.
C2_HashEq ==
    res.op = "hash" =>
        /\ res.val[1] = ToLower(a)
        /\ res.val[2] = ToLower(b)
        /\ UncasedStr_eq(View(a), View(b)) => res.val[1] = res.val[2]

C2_Witness ==
    /\ res.op = "hash"
    /\ a # b
    /\ UncasedStr_eq(View(a), View(b))
    /\ res.val[1] = res.val[2]
    /\ Len(a) = 2

\* ----------------------------------------------------------------- C3
Str_abc == <<97, 98, 99>>
Str_ABC == <<65, 66, 67>>
Str_abd == <<97, 98, 100>>
Str_Banana == <<66, 97, 110, 97, 110, 97>>
Str_apple == <<97, 112, 112, 108, 101>>
Str_Cherry == <<67, 104, 101, 114, 114, 121>>

\* seq is in nondecreasing order under cmp
IsSorted(seq) ==
    \A i \in 1..(Len(seq) - 1) : cmp(View(seq[i]), View(seq[i + 1])) # "Greater"

\* The examples of the ordering: "abc" vs "ABC", "abc" vs "abd", and the one
\* sorted arrangement of Banana, apple, Cherry.
C3_Examples ==
    /\ cmp(View(Str_abc), View(Str_ABC)) = "Equal"
    /\ cmp(View(Str_abc), View(Str_abd)) = "Less"
    /\ \A p \in [1..3 -> {Str_Banana, Str_apple, Str_Cherry}] :
         ({p[i] : i \in 1..3} = {Str_Banana, Str_apple, Str_Cherry} /\ IsSorted(p))
            <=> p = <<Str_apple, Str_Banana, Str_Cherry>>

\* C3: compare is a total order and ignores ASCII case: compare(a, b) is one
\* of Less, Equal, Greater and the reverse of compare(b, a); Less is
\* transitive; changing the case of ASCII letters of a or of b does not
\* change the result.  partial_cmp(a, b) is compare(a, b).
C3_TotalOrder ==
    /\ res.op = "partial_cmp" => res.ok /\ res.val = cmp(View(a), View(b))
    /\ res.op = "cmp" =>
        /\ res.ok
        /\ res.val \in {"Less", "Equal", "Greater"}
        /\ res.val = Reverse(cmp(View(b), View(a)))
        /\ res.val = "Less" =>
             \A c \in Texts :
                cmp(View(b), View(c)) = "Less" => cmp(View(a), View(c)) = "Less"
        /\ \A t \in Texts :
             /\ SameUpToCase(a, t) => cmp(View(t), View(b)) = res.val
             /\ SameUpToCase(b, t) => cmp(View(a), View(t)) = res.val
        /\ C3_Examples

\* "A" sorts after "[" although its byte is the smaller one.
C3_Witness ==
    /\ res.op = "cmp"
    /\ a = <<65>> /\ b = <<91>>
    /\ res.val = "Greater"

\* ----------------------------------------------------------------- C4
\* C4: starts_with(a, b) never fails, and returns true iff a is at least as
\* long as b in bytes and the first len(b) bytes of a equal b up to ASCII
\* case.
C4_StartsWithTotal ==
    res.op = "starts_with" =>
        /\ res.ok
        /\ res.val = (Len(a) >= Len(b) /\ FoldEq(SubSeq(a, 1, Len(b)), b))

\* ----------------------------------------------------------------- C5
\* C5: equality, ordering and hashing of two Uncased values built from a and
\* b give what the UncasedStr operations give on a and b, whichever branch
\* each value holds.
C5_ValueAsView ==
    /\ res.op = "eq" => res.val = UncasedStr_eq(View(a), View(b))
    /\ res.op \in {"cmp", "partial_cmp"} => res.val = cmp(View(a), View(b))
    /\ res.op = "hash" => res.val = <<hash(View(a), <<>>), hash(View(b), <<>>)>>

C5_Witness ==
    /\ res.op = "eq" /\ res.arg = "Uncased==Uncased"
    /\ res.val = TRUE
    /\ a # b
    /\ v[1].string.tag = "Borrowed" /\ v[2].string.tag = "Owned"

\* ----------------------------------------------------------------- C6
\* C6: bytes that are not ASCII letters are compared and hashed as they
\* are: texts of equal length that differ at a position holding a byte of a
\* non-ASCII character are unequal, and a byte outside 'A'..'Z' reaches the
\* hasher unchanged.
C6_NonAsciiPassthrough ==
    /\ (/\ res.op = "eq"
        /\ Len(a) = Len(b)
        /\ \E i \in 1..Len(a) : a[i] # b[i] /\ (a[i] >= 128 \/ b[i] >= 128))
       => res.val = FALSE
    /\ res.op = "hash" =>
         \A i \in 1..Len(a) : ~IsUpper(a[i]) => res.val[1][i] = a[i]

\* U+00E9 against U+00C9: a lowercase and an uppercase accented letter.
C6_Witness ==
    /\ res.op = "eq"
    /\ a = <<195, 169>> /\ b = <<195, 137>>
    /\ res.val = FALSE

\* ----------------------------------------------------------------- C7
\* as_str(View(s)) is s.
C7_AsStr == \A s \in ValueTexts : as_str(UncasedStr_new(s)) = s

\* C7: constructions and conversions keep the text byte for byte: an Uncased
\* built from a text, its clone, its views, the String of into_string, the
\* Box of into_boxed_uncased and the Uncased of into_uncased all hold
\* exactly that text, after any sequence of operations.
C7_TextPreserved ==
    /\ \A i \in 1..2 :
         /\ v[i].kind = "Uncased" => v[i].string.s = txt(i)
         /\ v[i].kind = "Box" => v[i].str = txt(i)
    /\ res.op \in {"into_string", "as_str", "fmt"} => res.val = txt(res.arg[1])
    /\ res.op \in {"new", "from", "from_borrowed", "from_owned", "clone", "into_uncased"}
         => res.val.string.s = txt(res.arg[1])
    /\ res.op = "into_cow" => res.val.s = txt(res.arg[1])
    /\ res.op = "into_boxed_uncased" => res.val.str = txt(res.arg[1])
    /\ res.op = "as_view" => as_str(res.val) = txt(res.arg[1])
    /\ C7_AsStr

\* An "A" that went into a box and back.
C7_Witness ==
    /\ res.op = "into_uncased" /\ res.arg = <<1>>
    /\ a = <<65>>
    /\ v[1].string = Cow_Owned(<<65>>)

\* ----------------------------------------------------------------- C8
\* C8: a[start..end] is the View of exactly the bytes start..end of a when
\* start <= end <= len(a) and both are character boundaries, and panics
\* otherwise.
C8_Slice ==
    res.op = "index" =>
        LET start == res.arg[1]
            end == res.arg[2]
        IN IF start <= end /\ end <= Len(a)
              /\ start \in Boundaries(a) /\ end \in Boundaries(a)
           THEN res.ok /\ as_str(res.val) = [i \in 1..(end - start) |-> a[start + i]]
           ELSE ~res.ok

\* A range inside the text that cuts a two-byte character.
C8_Witness ==
    /\ res.op = "index"
    /\ res.arg[1] < res.arg[2] /\ res.arg[2] < Len(a)
    /\ a[res.arg[2] + 1] \in 128..191
    /\ ~res.ok

\* ----------------------------------------------------------------- C9
SourceBranch(src) ==
    CASE src.type = "&str" -> "Borrowed"
      [] src.type = "String" -> "Owned"
      [] src.type = "Cow" -> src.cow.tag

ReadOnlyOps == {"as_view", "as_str", "index", "fmt", "eq", "cmp", "partial_cmp", "hash"}

\* C9: a value has one branch, and text is copied only where stated:
\* from_borrowed gives the borrowed branch, from_owned the owned one, new
\* and from the branch of their source, none of them copying; clone keeps
\* the branch and copies iff owned; views, comparisons and hashes change
\* nothing and copy nothing; into_string copies iff the value is borrowed.
C9_Branch ==
    [][/\ \A i \in 1..2 :
            v'[i].kind = "Uncased" => v'[i].string.tag \in {"Borrowed", "Owned"}
       /\ res'.op = "from_borrowed" =>
            res'.val.string.tag = "Borrowed" /\ ~res'.copied
       /\ res'.op = "from_owned" =>
            res'.val.string.tag = "Owned" /\ ~res'.copied
       /\ res'.op \in {"new", "from"} =>
            res'.val.string.tag = SourceBranch(res'.arg[2]) /\ ~res'.copied
       /\ res'.op = "clone" =>
            /\ res'.val.string.tag = v[res'.arg[1]].string.tag
            /\ res'.copied <=> (v[res'.arg[1]].string.tag = "Owned")
            /\ v' = v
       /\ res'.op \in ReadOnlyOps => v' = v /\ ~res'.copied
       /\ res'.op = "into_string" =>
            (res'.copied <=> (v[res'.arg[1]].string.tag = "Borrowed"))
      ]_vars

C9_Witness ==
    /\ res.op = "into_string"
    /\ res.copied
    /\ v[2].kind = "Uncased" /\ v[2].string.tag = "Owned"

\* ---------------------------------------------------------------- C10
\* C10: compare(a, b) is Equal exactly when a and b are equal, for texts
\* with multi-byte characters too.
C10_OrdEqConsistent ==
    res.op \in {"cmp", "partial_cmp"} =>
        ((res.val = "Equal") <=> UncasedStr_eq(View(a), View(b)))

C10_Witness ==
    /\ res.op = "cmp"
    /\ res.val = "Equal"
    /\ a # b
    /\ \E i \in 1..Len(a) : a[i] >= 128

====
